---- MODULE Spec2Model ----
(***************************************************************************)
(* Model of src/ems_scheduler.py: the Scheduler class (construction and    *)
(* generate_schedule).  Two Scheduler objects built on the same roster     *)
(* with different hour limits are driven by the same calls, so that        *)
(* properties relating two runs can be stated over one state.              *)
(*                                                                         *)
(* Text is modelled as a sequence of one-character strings, so that        *)
(* Series.str.contains is a real substring search.  The date text          *)
(* "%Y-%m-%d" is modelled by its three fields <<year, month, day>>, and    *)
(* the violation text "<date> <shift>: missing role <role>" by its three   *)
(* fields <<day_key, shift, role>>.                                        *)
(***************************************************************************)
EXTENDS Integers, Sequences, FiniteSets, TLC

VARIABLES
    scheds,    \* the Scheduler objects
    year,      \* arguments of the last generate_schedule call
    month,
    outcome,   \* "new" before any call, then "ok" or the exception raised
    completed  \* number of calls that returned without an exception

vars == <<scheds, year, month, outcome, completed>>

----------------------------------------------------------------------------
(* Bounds of the model *)

\* rows of the reference staff table a roster is taken from
MaxStaff == 5

\* number of distinct seeds of the random source
MaxRnd == 2

\* number of generate_schedule calls that complete on one object
MaxCalls == 2

----------------------------------------------------------------------------
(* Configuration, src/ems_scheduler.py:14-21 *)

SHIFTS == <<"AM", "Midday", "PM">>

ROLES_NEEDED == <<"Full EMT", "Probationary EMT", "Observer">>

SHIFT_HOURS == 12

SAMPLE_CAP == 3

DEFAULT_MAX_WEEK_PAID_HOURS == 240

\* datetime.MINYEAR / datetime.MAXYEAR: the years datetime.date accepts
MINYEAR == 1

MAXYEAR == 9999

\* Python's None
None == <<>>

\* the characters of a shift name, as str.contains sees them
ShiftText(shift) ==
    CASE shift = "AM" -> <<"A", "M">>
      [] shift = "Midday" -> <<"M", "i", "d", "d", "a", "y">>
      [] shift = "PM" -> <<"P", "M">>

----------------------------------------------------------------------------
(* Inputs: the staff table read from the uploaded file *)

\* a cell holding text
Text(chars) == [isna |-> FALSE, text |-> chars]

\* an empty cell (NaN)
NA == [isna |-> TRUE, text |-> <<>>]

AvailabilityCells ==
    << Text(<<"A", "M">>),
       Text(<<"A", "M", ",", "P", "M">>),
       Text(<<"A", "M", ",", "M", "i", "d", "d", "a", "y", ",", "P", "M">>),
       NA >>

NameCells == <<"Alice", "Bob", "Cara", "Dan">>

RoleCells == <<"Full EMT", "Probationary EMT", "Observer">>

\* row i of the reference staff table
StaffRow(i) ==
    [Name |-> NameCells[((i - 1) % Len(NameCells)) + 1],
     Role |-> RoleCells[((i - 1) % Len(RoleCells)) + 1],
     Availability |-> AvailabilityCells[((i - 1) % Len(AvailabilityCells)) + 1],
     Paid |-> (i % 2 = 1)]

RECURSIVE SelectRows(_, _)
\* the rows of the reference table whose number is in keep, in table order
SelectRows(keep, i) ==
    IF i > MaxStaff THEN <<>>
    ELSE IF i \in keep THEN <<StaffRow(i)>> \o SelectRows(keep, i + 1)
    ELSE SelectRows(keep, i + 1)

\* the staff tables the model is run on (the empty one included)
Rosters == {SelectRows(keep, 1) : keep \in SUBSET (1..MaxStaff)}

\* the (max_week_paid_hours, max_hours_per_person) pairs of the second object
TwinLimits == {<<0, <<SHIFT_HOURS>> >>}

Years == {0, 2024}

Months == {2, 4, 13}

Seeds == 0..(MaxRnd - 1)

Instances == {1, 2}

----------------------------------------------------------------------------
(* Library functions used by generate_schedule *)

\* calendar.isleap
isleap(y) == (y % 4 = 0) /\ ((y % 100 # 0) \/ (y % 400 = 0))

\* calendar.mdays
mdays == <<31, 28, 31, 30, 31, 30, 31, 31, 30, 31, 30, 31>>

\* calendar.monthrange(year, month)[1], for 1 <= month <= 12
monthrange(y, m) == mdays[m] + (IF m = 2 /\ isleap(y) THEN 1 ELSE 0)

\* substring search: pat occurs in s
Contains(s, pat) ==
    \E i \in 1..(Len(s) - Len(pat) + 1) : SubSeq(s, i, i + Len(pat) - 1) = pat

\* Series.str.contains(pat, na=...) on one cell
StrContains(cell, pat, na) ==
    IF cell.isna THEN na ELSE Contains(cell.text, pat)

\* sequence s without its i-th element
RemoveAt(s, i) == SubSeq(s, 1, i - 1) \o SubSeq(s, i + 1, Len(s))

RECURSIVE Sample(_, _, _)
\* DataFrame.sample(n) (replace=False): n rows drawn one after the other from
\* the rows not drawn yet; u is the number the random source yields
Sample(rows, n, u) ==
    IF n = 0 THEN <<>>
    ELSE LET i == (u % Len(rows)) + 1
         IN  <<rows[i]>> \o Sample(RemoveAt(rows, i), n - 1, u \div Len(rows))

Min(a, b) == IF a <= b THEN a ELSE b

----------------------------------------------------------------------------
(* class Scheduler *)

\* an empty dict
EmptyDict == [k \in {} |-> <<>>]

\* Scheduler.__init__
Scheduler(staff_df, max_week_paid_hours, max_hours_per_person) ==
    [staff_df |-> staff_df,
     max_week_paid_hours |-> max_week_paid_hours,
     max_hours_per_person |-> max_hours_per_person,
     assignments |-> EmptyDict,
     violations |-> <<>>]

\* variant of Cleared: the two clear() calls are missing
ClearedNot(self) == self

\* self.assignments.clear(); self.violations.clear()
Cleared(self) ==
    [self EXCEPT !.assignments = EmptyDict, !.violations = <<>>]

\* date(year, month, d).strftime("%Y-%m-%d"), as its fields
DayKey(y, m, d) == <<y, m, d>>

\* the row numbers of staff_df, in table order
RowIndex(staff_df) == [i \in 1..Len(staff_df) |-> i]

\* variant of available: str.contains(shift, na=True)
availableNaTrue(staff_df, shift) ==
    SelectSeq(RowIndex(staff_df),
              LAMBDA i : StrContains(staff_df[i].Availability, ShiftText(shift), TRUE))

\* staff_df[staff_df['Availability'].str.contains(shift, na=False)], as the
\* row numbers it keeps, in table order
available(staff_df, shift) ==
    SelectSeq(RowIndex(staff_df),
              LAMBDA i : StrContains(staff_df[i].Availability, ShiftText(shift), FALSE))

\* variant of PickCount: min(4, len(available))
PickCountCap4(self, avail) == Min(SAMPLE_CAP + 1, Len(avail))

\* variant of PickCount: the count also kept within the paid hours of a week
PickCountWithinHours(self, avail) ==
    Min(Min(SAMPLE_CAP, Len(avail)), self.max_week_paid_hours \div SHIFT_HOURS)

\* min(3, len(available))
PickCount(self, avail) == Min(SAMPLE_CAP, Len(avail))

RECURSIVE SampleReplace(_, _, _)
\* DataFrame.sample(n, replace=True): a drawn row stays among the candidates
SampleReplace(rows, n, u) ==
    IF n = 0 THEN <<>>
    ELSE <<rows[(u % Len(rows)) + 1]>> \o SampleReplace(rows, n - 1, u \div Len(rows))

\* variant of sampledRows: sampling with replacement
sampledRowsReplace(self, avail, u) == SampleReplace(avail, PickCount(self, avail), u)

\* available.sample(min(3, len(available))), as the row numbers drawn
sampledRows(self, avail, u) == Sample(avail, PickCount(self, avail), u)

\* picks.append((row['Name'], row['Role'], row['Paid'])) for each sampled row
picksOf(staff_df, rows) ==
    [j \in 1..Len(rows) |->
        <<staff_df[rows[j]].Name, staff_df[rows[j]].Role, staff_df[rows[j]].Paid>>]

\* variant of StorePicks: the store sits inside "if not available.empty"
StorePicksIfAny(assignments, key, picks) ==
    IF picks = <<>> THEN assignments ELSE (key :> picks) @@ assignments

\* self.assignments[(day_key, shift)] = picks
StorePicks(assignments, key, picks) == (key :> picks) @@ assignments

\* variant of rolesPresent: {r for r, _, _ in picks}
rolesPresentFirstField(picks) == {picks[j][1] : j \in 1..Len(picks)}

\* {r for _, r, _ in picks}
rolesPresent(picks) == {picks[j][2] : j \in 1..Len(picks)}

\* variant of AppendViolation: self.violations.insert(0, ...)
PrependViolation(violations, day_key, shift, needed) ==
    <<<<day_key, shift, needed>>>> \o violations

\* self.violations.append(f"{day_key} {shift}: missing role {needed}")
AppendViolation(violations, day_key, shift, needed) ==
    Append(violations, <<day_key, shift, needed>>)

\* for needed in ROLES_NEEDED: if needed not in roles_present: append;
\* after[n] is the list after the pass for the n-th role
RoleLoop(violations, roles_present, day_key, shift) ==
    LET after[n \in 0..Len(ROLES_NEEDED)] ==
            IF n = 0 THEN violations
            ELSE IF ROLES_NEEDED[n] \notin roles_present
            THEN AppendViolation(after[n - 1], day_key, shift, ROLES_NEEDED[n])
            ELSE after[n - 1]
    IN  after[Len(ROLES_NEEDED)]

\* variant of SlotBody: "if available.empty: continue" at the top of the body
SlotBodySkipEmpty(st, day_key, shift, r) ==
    LET avail == available(st.self.staff_df, shift)
        rows == sampledRows(st.self, avail, r + st.draws)
        picks == picksOf(st.self.staff_df, rows)
    IN  IF avail = <<>> THEN st
        ELSE [self |-> [st.self EXCEPT
                          !.assignments = StorePicks(@, <<day_key, shift>>, picks),
                          !.violations = RoleLoop(@, rolesPresent(picks), day_key, shift)],
              draws |-> st.draws + 1,
              raised |-> st.raised]

\* one pass of the body of the shift loop (lines 43-54); st holds self, the
\* number of draws made from the random source so far, and the exception
\* raised ("ok" when none)
SlotBody(st, day_key, shift, r) ==
    LET avail == available(st.self.staff_df, shift)
        rows == IF avail # <<>> THEN sampledRows(st.self, avail, r + st.draws)
                ELSE <<>>
        picks == picksOf(st.self.staff_df, rows)
    IN  [self |-> [st.self EXCEPT
                     !.assignments = StorePicks(@, <<day_key, shift>>, picks),
                     !.violations = RoleLoop(@, rolesPresent(picks), day_key, shift)],
         draws |-> IF avail # <<>> THEN st.draws + 1 ELSE st.draws,
         raised |-> st.raised]

\* for shift in SHIFTS: after[s] is the state after the pass for the s-th
\* shift; an exception ends the loop
ShiftLoop(st0, day_key, r) ==
    LET after[s \in 0..Len(SHIFTS)] ==
            IF s = 0 THEN st0
            ELSE LET st == after[s - 1]
                 IN  IF st.raised # "ok" THEN st
                     ELSE SlotBody(st, day_key, SHIFTS[s], r)
    IN  after[Len(SHIFTS)]

\* for d in range(1, num_days + 1): after[d] is the state after the pass for
\* day d; date(year, month, d) raises ValueError for a year outside
\* MINYEAR..MAXYEAR, and an exception ends the loop
DayLoop(st0, y, m, num_days, r) ==
    LET after[d \in 0..num_days] ==
            IF d = 0 THEN st0
            ELSE LET st == after[d - 1]
                 IN  IF st.raised # "ok" THEN st
                     ELSE IF ~(MINYEAR <= y /\ y <= MAXYEAR)
                     THEN [st EXCEPT !.raised = "ValueError"]
                     ELSE ShiftLoop(st, DayKey(y, m, d), r)
    IN  after[num_days]

\* Scheduler.generate_schedule(year, month) with the random source seeded by
\* r: the object after the call and the exception raised ("ok" when none)
generate_schedule(self, y, m, r) ==
    LET st0 == [self |-> Cleared(self), draws |-> 0, raised |-> "ok"]
    IN  IF ~(1 <= m /\ m <= 12)
        THEN \* calendar.monthrange raises IllegalMonthError
             [st0 EXCEPT !.raised = "IllegalMonthError"]
        ELSE DayLoop(st0, y, m, monthrange(y, m), r)

----------------------------------------------------------------------------
(* The state machine *)

\* two Scheduler objects constructed on one staff table: the first with the
\* default limits, the second with other limits; no call made yet
Init ==
    /\ \E staff_df \in Rosters, lim \in TwinLimits :
          scheds = [i \in Instances |->
                      IF i = 1
                      THEN Scheduler(staff_df, DEFAULT_MAX_WEEK_PAID_HOURS, None)
                      ELSE Scheduler(staff_df, lim[1], lim[2])]
    /\ year = 0
    /\ month = 0
    /\ outcome = "new"
    /\ completed = 0

\* sched.generate_schedule(y, m) on both objects, with the same random choices
Generate(y, m, r) ==
    LET res == [i \in Instances |-> generate_schedule(scheds[i], y, m, r)]
    IN  /\ completed < MaxCalls
        /\ scheds' = [i \in Instances |-> res[i].self]
        /\ outcome' = res[1].raised
        /\ completed' = IF res[1].raised = "ok" THEN completed + 1 ELSE completed
        /\ year' = y
        /\ month' = m

Next == \E y \in Years, m \in Months, r \in Seeds : Generate(y, m, r)

Spec == Init /\ [][Next]_vars

----------------------------------------------------------------------------
(* Vocabulary of the properties *)

\* the last call returned without an exception
Done == outcome = "ok"

\* days of a month by the Gregorian rules
DaysInMonth(y, m) ==
    IF m \in {4, 6, 9, 11} THEN 30
    ELSE IF m # 2 THEN 31
    ELSE IF y % 400 = 0 \/ (y % 4 = 0 /\ y % 100 # 0) THEN 29
    ELSE 28

\* the slot keys of a month
Slots(y, m) ==
    {<<DayKey(y, m, d), SHIFTS[s]>> : d \in 1..DaysInMonth(y, m), s \in 1..Len(SHIFTS)}

\* the elements of a sequence
Range(seq) == {seq[j] : j \in 1..Len(seq)}

\* the Availability text of row holds the name of shift
AvailableFor(row, shift) ==
    /\ ~row.Availability.isna
    /\ \E i \in 1..Len(row.Availability.text) :
          /\ i + Len(ShiftText(shift)) - 1 <= Len(row.Availability.text)
          /\ \A k \in 1..Len(ShiftText(shift)) :
                row.Availability.text[i + k - 1] = ShiftText(shift)[k]

\* the rows of a staff table available for shift
AvailableRows(staff_df, shift) ==
    {n \in 1..Len(staff_df) : AvailableFor(staff_df[n], shift)}

\* the pick made of a row
PickTuple(row) == <<row.Name, row.Role, row.Paid>>

\* position of an element in a sequence without repetition
IndexIn(seq, x) == CHOOSE j \in 1..Len(seq) : seq[j] = x

\* position of a violation in the day, shift, role iteration order
Rank(v) ==
    ((v[1][3] - 1) * Len(SHIFTS) + (IndexIn(SHIFTS, v[2]) - 1)) * Len(ROLES_NEEDED)
    + IndexIn(ROLES_NEEDED, v[3])

----------------------------------------------------------------------------
(* Properties *)

\* C1: after generate_schedule completes, assignments holds exactly one
\* entry per (day, shift) of the month, numDays x 3 in all, empty picks
\* included, and no entry under any other key.
C1_OneEntryPerSlot ==
    Done =>
        \A i \in Instances :
            /\ DOMAIN scheds[i].assignments = Slots(year, month)
            /\ Cardinality(DOMAIN scheds[i].assignments)
                  = DaysInMonth(year, month) * 3

\* a completed call that left a slot with empty picks next to a filled one
C1_Witness ==
    /\ Done
    /\ \E k1, k2 \in DOMAIN scheds[1].assignments :
          /\ scheds[1].assignments[k1] = <<>>
          /\ scheds[1].assignments[k2] # <<>>

\* C2: every pick of every slot is a row of the staff table whose
\* Availability text contains the slot's shift name; a row with "AM,PM" is
\* never picked for Midday and a row with no availability is never picked.
C2_PicksAreAvailable ==
    Done =>
        \A i \in Instances :
            \A shift \in Range(SHIFTS) :
                LET rows == AvailableRows(scheds[i].staff_df, shift)
                IN  \A key \in DOMAIN scheds[i].assignments :
                        key[2] = shift =>
                            \A p \in Range(scheds[i].assignments[key]) :
                                \E n \in rows : PickTuple(scheds[i].staff_df[n]) = p

\* the "AM,PM" row was picked for a PM slot and for an AM slot of a table
\* that also holds a row with no availability
C2_Witness ==
    /\ Done
    /\ \E n \in 1..Len(scheds[1].staff_df) : scheds[1].staff_df[n].Availability.isna
    /\ \E k1, k2 \in DOMAIN scheds[1].assignments :
          /\ k1[2] = "AM"
          /\ k2[2] = "PM"
          /\ PickTuple(StaffRow(2)) \in Range(scheds[1].assignments[k1])
          /\ PickTuple(StaffRow(2)) \in Range(scheds[1].assignments[k2])

\* C3: the number of picks of every slot is min(3, number of rows available
\* for the slot's shift).
C3_PickCount ==
    Done =>
        \A i \in Instances :
            \A shift \in Range(SHIFTS) :
                LET n == Cardinality(AvailableRows(scheds[i].staff_df, shift))
                IN  \A key \in DOMAIN scheds[i].assignments :
                        key[2] = shift =>
                            Len(scheds[i].assignments[key]) = (IF n >= 3 THEN 3 ELSE n)

\* a slot with four or more rows available and three picks
C3_Witness ==
    /\ Done
    /\ \E key \in DOMAIN scheds[1].assignments :
          /\ Cardinality(AvailableRows(scheds[1].staff_df, key[2])) >= 4
          /\ Len(scheds[1].assignments[key]) = 3

\* C4: no staff member appears twice in the picks of one slot.
C4_NoDuplicatePick ==
    Done =>
        \A i \in Instances :
            \A key \in DOMAIN scheds[i].assignments :
                \A j, k \in 1..Len(scheds[i].assignments[key]) :
                    j # k => scheds[i].assignments[key][j] # scheds[i].assignments[key][k]

\* a slot with three picks drawn from more than three available rows
C4_Witness ==
    /\ Done
    /\ \E key \in DOMAIN scheds[1].assignments :
          /\ Len(scheds[1].assignments[key]) = 3
          /\ Cardinality(AvailableRows(scheds[1].staff_df, key[2])) > 3

\* C5: after generate_schedule completes, violations holds exactly one entry
\* for every slot and required role that no pick of the slot has, no entry
\* for a role some pick has, and no other entry.
C5_ViolationsExact ==
    Done =>
        \A i \in Instances :
            LET v == scheds[i].violations
                a == scheds[i].assignments
            IN  /\ Cardinality(Range(v)) = Len(v)
                /\ \A e \in Range(v) :
                      /\ <<e[1], e[2]>> \in DOMAIN a
                      /\ e[3] \in Range(ROLES_NEEDED)
                /\ \A key \in DOMAIN a :
                      \A role \in Range(ROLES_NEEDED) :
                          (<<key[1], key[2], role>> \in Range(v))
                              <=> (\A p \in Range(a[key]) : p[2] # role)

\* a slot where one required role is picked and another is missing
C5_Witness ==
    /\ Done
    /\ \E key \in DOMAIN scheds[1].assignments :
          \E r1, r2 \in Range(ROLES_NEEDED) :
              /\ \E p \in Range(scheds[1].assignments[key]) : p[2] = r1
              /\ <<key[1], key[2], r2>> \in Range(scheds[1].violations)

\* C6: a generate_schedule call that fails in the date computation leaves
\* assignments and violations as they were before the call.
C6_FailurePreservesState ==
    [][outcome' \in {"IllegalMonthError", "ValueError"} =>
          \A i \in Instances :
              /\ scheds'[i].assignments = scheds[i].assignments
              /\ scheds'[i].violations = scheds[i].violations]_vars

\* C7: a completed call leaves only what it produced: the keys are those of
\* its own month, every violation names a slot of its own month and none is
\* repeated, and a call for the month of the previous completed call yields
\* the same key set and size.
C7_FullReset ==
    [][outcome' = "ok" =>
          \A i \in Instances :
              /\ ((DOMAIN scheds[i].assignments) \ Slots(year', month'))
                    \cap DOMAIN scheds'[i].assignments = {}
              /\ {<<e[1], e[2]>> : e \in Range(scheds'[i].violations)}
                    \subseteq Slots(year', month')
              /\ Len(scheds'[i].violations) <= DaysInMonth(year', month') * 9
              /\ Cardinality(Range(scheds'[i].violations)) = Len(scheds'[i].violations)
              /\ (outcome = "ok" /\ year' = year /\ month' = month) =>
                    /\ DOMAIN scheds'[i].assignments = DOMAIN scheds[i].assignments
                    /\ Cardinality(DOMAIN scheds'[i].assignments)
                          = Cardinality(DOMAIN scheds[i].assignments)]_vars

\* a second call completed on an object
C7_Witness ==
    /\ Done
    /\ completed >= 2

\* C8: with an empty staff table a call for a valid month completes, every
\* slot has empty picks, and violations holds numDays x 3 x 3 entries.
C8_EmptyRoster ==
    \A i \in Instances :
        (/\ scheds[i].staff_df = <<>>
         /\ outcome # "new"
         /\ month \in 1..12
         /\ year \in MINYEAR..MAXYEAR) =>
            /\ outcome = "ok"
            /\ \A key \in Slots(year, month) :
                  /\ key \in DOMAIN scheds[i].assignments
                  /\ scheds[i].assignments[key] = <<>>
            /\ Len(scheds[i].violations) = DaysInMonth(year, month) * 3 * 3
            /\ \A key \in Slots(year, month) :
                  \A role \in Range(ROLES_NEEDED) :
                      <<key[1], key[2], role>> \in Range(scheds[i].violations)

\* a completed call on an empty staff table
C8_Witness ==
    /\ Done
    /\ scheds[1].staff_df = <<>>

\* C9: violations are in day, then shift (AM, Midday, PM), then role (Full
\* EMT, Probationary EMT, Observer) order.
C9_ViolationOrder ==
    Done =>
        \A i \in Instances :
            \A j \in 1..(Len(scheds[i].violations) - 1) :
                Rank(scheds[i].violations[j]) < Rank(scheds[i].violations[j + 1])

\* violations of two roles of one slot and of two shifts and of two days
C9_Witness ==
    /\ Done
    /\ \E j \in 1..(Len(scheds[1].violations) - 3) :
          LET v == scheds[1].violations
          IN  /\ v[j][1] = v[j + 1][1] /\ v[j][2] = v[j + 1][2]
              /\ v[j + 1][1] = v[j + 2][1] /\ v[j + 1][2] # v[j + 2][2]
    /\ \E j \in 1..(Len(scheds[1].violations) - 1) :
          scheds[1].violations[j][1] # scheds[1].violations[j + 1][1]

\* C10: two objects on one staff table with different limits, given the same
\* call and random choices, hold the same assignments and violations; a call
\* changes neither the limits nor the staff table.
C10_LimitsInert ==
    [][\A i, j \in Instances :
          /\ scheds'[i].max_week_paid_hours = scheds[i].max_week_paid_hours
          /\ scheds'[i].max_hours_per_person = scheds[i].max_hours_per_person
          /\ scheds'[i].staff_df = scheds[i].staff_df
          /\ scheds'[i].assignments = scheds'[j].assignments
          /\ scheds'[i].violations = scheds'[j].violations]_vars

\* a completed call that picked staff on two objects whose limits differ
C10_Witness ==
    /\ Done
    /\ scheds[1].max_week_paid_hours # scheds[2].max_week_paid_hours
    /\ scheds[1].max_hours_per_person # scheds[2].max_hours_per_person
    /\ \E key \in DOMAIN scheds[2].assignments : Len(scheds[2].assignments[key]) = 3

====
